---- MODULE Spec2Model ----
(***************************************************************************)
(* Model of the subtitle acquisition code:                                 *)
(*   bazarr/subtitles/mass_download/movies.py  movies_download_subtitles   *)
(*   custom_libs/subliminal_patch/providers/fileflows.py FileFlowsProvider *)
(*                                                                         *)
(* Strings that the code inspects character by character (the entries of   *)
(* the missing-subtitle list) are sequences of one-character strings.  The *)
(* serialized missing-subtitle state is a sequence of lexical tokens of    *)
(* the Python literal; literal_eval parses it.                             *)
(***************************************************************************)
EXTENDS Integers, Sequences, FiniteSets, TLC

\* ---------------------------------------------------------------- bounds
\* longest missing-subtitle list enumerated as an input
MaxEntries == 2

\* ------------------------------------------------------------- strings
COLON == ":"
HI_SUFFIX == <<":", "h", "i">>
FORCED_SUFFIX == <<":", "f", "o", "r", "c", "e", "d">>

\* str.endswith(suffix)
EndsWith(s, suf) ==
    /\ Len(s) >= Len(suf)
    /\ SubSeq(s, Len(s) - Len(suf) + 1, Len(s)) = suf

\* position of the first colon of s, or Len(s) + 1 when there is none
RECURSIVE FirstColon(_, _)
FirstColon(s, p) ==
    IF p > Len(s) THEN p
    ELSE IF s[p] = COLON THEN p
    ELSE FirstColon(s, p + 1)

\* str.split(":")[0]
SplitHead(s) == SubSeq(s, 1, FirstColon(s, 1) - 1)

\* -------------------------------------------------- serialized raw state
\* Tokens of the serialized list.  "str" tokens carry the string's
\* characters, "name" is a bare identifier (not a literal).
Tok(t, v) == [t |-> t, v |-> v]
LB == Tok("lb", <<>>)
RB == Tok("rb", <<>>)
COMMA == Tok("comma", <<>>)
NONE == Tok("none", <<>>)
StrTok(s) == Tok("str", s)

\* the values a list entry takes in the enumerated inputs
EN == <<"e", "n">>
ES == <<"e", "s">>
EntryValues ==
    { NONE,
      StrTok(EN),
      StrTok(EN \o HI_SUFFIX),
      StrTok(ES \o FORCED_SUFFIX),
      StrTok(ES \o FORCED_SUFFIX \o HI_SUFFIX) }

\* repr() of a Python list of str/None entries, token by token
RECURSIVE Serialize(_)
Serialize(l) ==
    IF l = <<>> THEN <<LB, RB>>
    ELSE IF Len(l) = 1 THEN <<LB, l[1], RB>>
    ELSE <<LB, l[1], COMMA>> \o Tail(Serialize(Tail(l)))

\* position of the "rb" that closes the "lb" at position 1, scanning from
\* p with `depth` brackets open; 0 when there is none
RECURSIVE MatchRB(_, _, _)
MatchRB(toks, p, depth) ==
    IF p > Len(toks) THEN 0
    ELSE IF toks[p].t = "lb" THEN MatchRB(toks, p + 1, depth + 1)
    ELSE IF toks[p].t = "rb"
        THEN IF depth = 1 THEN p ELSE MatchRB(toks, p + 1, depth - 1)
    ELSE MatchRB(toks, p + 1, depth)

\* position of the last of the adjacent string literals that start at p
RECURSIVE StrRunEnd(_, _)
StrRunEnd(toks, p) ==
    IF p < Len(toks) /\ toks[p + 1].t = "str" THEN StrRunEnd(toks, p + 1)
    ELSE p

\* adjacent string literals a..b are one string
RECURSIVE Concat(_, _, _)
Concat(toks, a, b) ==
    IF a > b THEN <<>> ELSE toks[a].v \o Concat(toks, a + 1, b)

ParseFailed == [ok |-> FALSE, items |-> <<>>]

\* parse "item (, item)* [,]", an item being None, one or more adjacent
\* string literals, or a bracketed list of items; ok is FALSE on a syntax
\* error or a token that is no literal.  A list item is Tok("list", items).
RECURSIVE ParseItems(_)
ParseItems(toks) ==
    IF toks = <<>> THEN [ok |-> TRUE, items |-> <<>>]
    ELSE LET h == Head(toks).t
             e == IF h = "none" THEN 1
                  ELSE IF h = "str" THEN StrRunEnd(toks, 1)
                  ELSE IF h = "lb" THEN MatchRB(toks, 1, 0)
                  ELSE 0
         IN  IF e = 0 THEN ParseFailed
             ELSE LET sub == IF h = "lb" THEN ParseItems(SubSeq(toks, 2, e - 1))
                             ELSE [ok |-> TRUE, items |-> <<>>]
                      value == IF h = "none" THEN NONE
                               ELSE IF h = "str" THEN StrTok(Concat(toks, 1, e))
                               ELSE Tok("list", sub.items)
                  IN  IF ~sub.ok THEN ParseFailed
                      ELSE IF e = Len(toks)
                          THEN [ok |-> TRUE, items |-> <<value>>]
                      ELSE IF toks[e + 1].t # "comma" THEN ParseFailed
                      ELSE LET rest == ParseItems(SubSeq(toks, e + 2, Len(toks)))
                           IN  IF rest.ok
                               THEN [ok |-> TRUE,
                                     items |-> <<value>> \o rest.items]
                               ELSE ParseFailed

\* ast.literal_eval: kind "error" stands for the raised SyntaxError (bad
\* syntax) or ValueError (a node that is no literal), "none" for the value
\* None, "str" for a string value (items are then its characters), "list"
\* for a list, "tuple" for items separated or followed by a comma outside
\* any bracket.
literal_eval(toks) ==
    LET r == ParseItems(toks)
    IN  IF toks = <<>> \/ ~r.ok THEN [kind |-> "error", items |-> <<>>]
        ELSE IF Len(r.items) >= 2 \/ toks[Len(toks)].t = "comma"
            THEN [kind |-> "tuple", items |-> r.items]
        ELSE LET v == r.items[1]
             IN  IF v.t = "none" THEN [kind |-> "none", items |-> <<>>]
                 ELSE IF v.t = "str"
                     THEN [kind |-> "str",
                           items |-> [k \in 1..Len(v.v) |-> StrTok(<<v.v[k]>>)]]
                 ELSE [kind |-> "list", items |-> v.v]

\* Python truthiness of the evaluated literal
Truthy(v) == v.kind \in {"list", "tuple", "str"} /\ Len(v.items) > 0

\* whether a for loop can iterate the value (None is not iterable)
Iterable(v) == v.kind \in {"list", "tuple", "str"}

RECURSIVE SeqsUpTo(_, _)
SeqsUpTo(S, n) ==
    IF n = 0 THEN {<<>>}
    ELSE LET shorter == SeqsUpTo(S, n - 1)
         IN  shorter \cup {Append(l, e) : l \in shorter, e \in S}

EntryLists == SeqsUpTo(EntryValues, MaxEntries)

\* serializations that are no list of strings and nulls: empty text, an
\* unclosed list, a bare identifier, the literal None, a list in a list,
\* a tuple without parentheses, two adjacent string literals
OtherSerializations ==
    { <<>>, <<LB, StrTok(EN)>>, <<Tok("name", EN)>>, <<NONE>>,
      <<LB, LB, RB, RB>>, <<StrTok(EN), COMMA, NONE>>,
      <<StrTok(<<"e">>), StrTok(<<"n">>)>> }

RawStates == {Serialize(l) : l \in EntryLists} \cup OtherSerializations

\* ------------------------------------------------------------ the state
VARIABLES
    \* movies_download_subtitles
    no,                 \* the radarrId argument
    movieFound,         \* whether the query (lines 25-36) returns a row
    pathExists,         \* os.path.exists(moviePath)
    missing_subtitles,  \* movie.missing_subtitles, serialized
    pc,                 \* position in movies_download_subtitles
    exc,                \* exception that left the function, or "none"
    count_movie,
    languages,          \* list of (base, hi_, forced_)
    langSrc,            \* for each element of languages, its 0-based raw index
    i,                  \* 0-based index of the next raw entry of the first loop
    g,                  \* number of languages the generator has worked on
    result,             \* result being consumed by the second loop
    events,             \* calls made to the collaborators, in order
    run,                \* 1 in the first call for the item, 2 in the second
    prevEvents,         \* the calls the first call made, once it is over
    prevExc,            \* the exception of the first call, once it is over
    \* FileFlowsProvider.download_subtitle
    ffpc,               \* position in download_subtitle / wait_for_completion
    timeout,            \* self.timeout, seconds
    clock,              \* time.time(), in sixteenths of a second
    start_time,         \* wait_for_completion's start_time
    check_interval,     \* wait_for_completion's check_interval, same unit
    job_id,             \* subtitle.job_id ("" stands for None)
    content,            \* subtitle.content ("unset" or "empty" for b"")
    success,            \* what wait_for_completion returned, "none" before
    nChecks,            \* status checks issued
    nSleeps,            \* sleeps taken
    lastStatus,         \* what the last status check read ("" before)
    allProcessing,      \* every status check so far read "Processing"
    entryPoint,         \* the method called: download_subtitle or wait_for_completion
    max_wait_time,      \* wait_for_completion's max_wait_time, seconds
    lastSleep,          \* length of the last sleep, 0 before
    nSubmits,           \* requests posted to /api/flow/process by the call
    submitOutcome,      \* what the call's submit met, "none" before
    ffexc,              \* exception that left the call, or "none"
    \* FileFlowsProvider construction, initialize, terminate, ping
    lpc,                \* "new", "constructed", or "failed" (__init__ raised)
    args,               \* the arguments of __init__
    attrs,              \* self.api_url and self.timeout once assigned
    session,            \* self.session: "unset", "None", "open", "closed"
    lexc,               \* exception raised by the last call, or "none"
    pingResult,         \* what the last ping returned: "none" before
    netCalls,           \* requests sent
    ops                 \* calls of initialize, terminate and ping so far

movieVars == <<no, movieFound, pathExists, missing_subtitles, pc, exc,
               count_movie, languages, langSrc, i, g, result, events,
               run, prevEvents, prevExc>>

ffVars == <<ffpc, timeout, clock, start_time, check_interval, job_id,
            content, success, nChecks, nSleeps, lastStatus, allProcessing,
            entryPoint, max_wait_time, lastSleep, nSubmits, submitOutcome,
            ffexc>>

lifeVars == <<lpc, args, attrs, session, lexc, pingResult, netCalls, ops>>

vars == <<movieVars, ffVars, lifeVars>>

MovieIds == {1, 2}

\* one call to a collaborator: id is the id argument (0 when the call has
\* none), idx the 0-based raw index the call is about (-1 when none),
\* n a number argument, kind a qualifier
Ev(op, id, idx, n, kind) ==
    [op |-> op, id |-> id, idx |-> idx, n |-> n, kind |-> kind]

NoResult == [kind |-> "none", idx |-> -1]

\* what generate_subtitles hands to the loop for one language: nothing
\* ("skip"), a falsy value (None), a result object, or a tuple whose first
\* element is the result object
Outcomes == {"skip", "None", "obj", "tuple"}

ResultTruthy(kind) == kind \in {"obj", "tuple"}

\* the calls of get_providers in a log
ProviderCalls(log) == SelectSeq(log, LAMBDA e : e.op = "get_providers")

\* deterministic providers: in the second call for the item the k-th
\* get_providers() answers as the k-th one of the first call did
SameProviders(providers_list) ==
    LET before == ProviderCalls(prevEvents)
        k == Len(ProviderCalls(events)) + 1
    IN  (run = 2 /\ k <= Len(before)) =>
            (providers_list <=> before[k].kind = "active")

\* deterministic providers: in the second call for the item
\* generate_subtitles hands over for the entry at raw index idx what it
\* handed over for it in the first call
SameOutcome(idx, outcome) ==
    run = 2 =>
        \A p \in DOMAIN prevEvents :
            (prevEvents[p].op = "generate" /\ prevEvents[p].idx = idx) =>
                outcome = prevEvents[p].kind

MoviesInit ==
    /\ no \in MovieIds
    /\ movieFound \in BOOLEAN
    /\ pathExists \in BOOLEAN
    /\ missing_subtitles \in RawStates
    /\ pc = "query"
    /\ exc = "none"
    /\ count_movie = 0
    /\ languages = <<>>
    /\ langSrc = <<>>
    /\ i = 0
    /\ g = 0
    /\ result = NoResult
    /\ events = <<>>
    /\ run = 1
    /\ prevEvents = <<>>
    /\ prevExc = "none"

\* QueryMovie without the early return of lines 37-39
QueryMovie_NoReturn ==
    /\ pc = "query"
    /\ pc' = "path"
    /\ UNCHANGED <<no, movieFound, pathExists, missing_subtitles, exc,
                   count_movie, languages, langSrc, i, g, result, events>>
    /\ UNCHANGED <<run, prevEvents, prevExc, ffVars, lifeVars>>

\* ------------------------------------------- movies_download_subtitles
\* lines 23-39: load the movie; return when there is none
QueryMovie ==
    /\ pc = "query"
    /\ pc' = IF movieFound THEN "path" ELSE "done"
    /\ UNCHANGED <<no, movieFound, pathExists, missing_subtitles, exc,
                   count_movie, languages, langSrc, i, g, result, events>>
    /\ UNCHANGED <<run, prevEvents, prevExc, ffVars, lifeVars>>

\* CheckPath without the raise of lines 43-44
CheckPath_NoRaise ==
    /\ pc = "path"
    /\ pc' = "count"
    /\ UNCHANGED <<no, movieFound, pathExists, missing_subtitles, exc,
                   count_movie, languages, langSrc, i, g, result, events>>
    /\ UNCHANGED <<run, prevEvents, prevExc, ffVars, lifeVars>>

\* lines 41-44: raise OSError when the mapped path does not exist
CheckPath ==
    /\ pc = "path"
    /\ IF pathExists
       THEN pc' = "count" /\ exc' = exc
       ELSE pc' = "raised" /\ exc' = "OSError"
    /\ UNCHANGED <<no, movieFound, pathExists, missing_subtitles,
                   count_movie, languages, langSrc, i, g, result, events>>
    /\ UNCHANGED <<run, prevEvents, prevExc, ffVars, lifeVars>>

\* the count of lines 46-49, from the evaluated literal
CountOf(v) == IF Truthy(v) THEN Len(v.items) ELSE 0

\* lines 46-59 up to the start of the first loop: count_movie, then the
\* evaluation of the loop's iterable
CountMissing ==
    /\ pc = "count"
    /\ LET v == literal_eval(missing_subtitles)
       IN  IF v.kind = "error"
           THEN /\ pc' = "raised"
                /\ exc' = "SyntaxError/ValueError"
                /\ count_movie' = count_movie
           ELSE IF ~Iterable(v)
           THEN /\ pc' = "raised"
                /\ exc' = "TypeError"
                /\ count_movie' = CountOf(v)
           ELSE /\ pc' = "resolve"
                /\ exc' = exc
                /\ count_movie' = CountOf(v)
    /\ UNCHANGED <<no, movieFound, pathExists, missing_subtitles,
                   languages, langSrc, i, g, result, events>>
    /\ UNCHANGED <<run, prevEvents, prevExc, ffVars, lifeVars>>

\* LanguageRequest with the two suffix tests exchanged
LanguageRequest_Swapped(language) ==
    << SplitHead(language),
       IF EndsWith(language, FORCED_SUFFIX) THEN "True" ELSE "False",
       IF EndsWith(language, HI_SUFFIX) THEN "True" ELSE "False" >>

\* lines 64-66: the tuple appended for one entry
LanguageRequest(language) ==
    << SplitHead(language),
       IF EndsWith(language, HI_SUFFIX) THEN "True" ELSE "False",
       IF EndsWith(language, FORCED_SUFFIX) THEN "True" ELSE "False" >>

\* ResolveLanguage going on to the next entry instead of the break of line 69
ResolveLanguage_NoBreak(providers_list) ==
    /\ pc = "resolve"
    /\ LET items == literal_eval(missing_subtitles).items
       IN  /\ i < Len(items)
           /\ events' = Append(events,
                  Ev("get_providers", 0, i, 0,
                     IF providers_list THEN "active" ELSE "empty"))
           /\ IF providers_list /\ items[i + 1].t = "list"
              THEN /\ pc' = "raised"
                   /\ exc' = "AttributeError"
                   /\ UNCHANGED <<languages, langSrc, i>>
              ELSE /\ IF providers_list /\ items[i + 1].t # "none"
                      THEN /\ languages' =
                                Append(languages, LanguageRequest(items[i + 1].v))
                           /\ langSrc' = Append(langSrc, i)
                      ELSE UNCHANGED <<languages, langSrc>>
                   /\ i' = i + 1
                   /\ pc' = pc
                   /\ exc' = exc
    /\ UNCHANGED <<no, movieFound, pathExists, missing_subtitles,
                   count_movie, g, result>>
    /\ UNCHANGED <<run, prevEvents, prevExc, ffVars, lifeVars>>

\* lines 59-69, one iteration: providers_list is what get_providers()
\* returns this time (truthy or empty); an entry that is a list has no
\* endswith and line 64 raises AttributeError
ResolveLanguage(providers_list) ==
    /\ pc = "resolve"
    /\ SameProviders(providers_list)
    /\ LET items == literal_eval(missing_subtitles).items
       IN  /\ i < Len(items)
           /\ events' = Append(events,
                  Ev("get_providers", 0, i, 0,
                     IF providers_list THEN "active" ELSE "empty"))
           /\ IF providers_list
              THEN IF items[i + 1].t = "list"
                   THEN /\ pc' = "raised"
                        /\ exc' = "AttributeError"
                        /\ UNCHANGED <<languages, langSrc, i>>
                   ELSE /\ IF items[i + 1].t # "none"
                           THEN /\ languages' =
                                     Append(languages, LanguageRequest(items[i + 1].v))
                                /\ langSrc' = Append(langSrc, i)
                           ELSE UNCHANGED <<languages, langSrc>>
                        /\ i' = i + 1
                        /\ pc' = pc
                        /\ exc' = exc
              ELSE /\ pc' = "show"
                   /\ exc' = exc
                   /\ UNCHANGED <<languages, langSrc, i>>
    /\ UNCHANGED <<no, movieFound, pathExists, missing_subtitles,
                   count_movie, g, result>>
    /\ UNCHANGED <<run, prevEvents, prevExc, ffVars, lifeVars>>

\* line 59: the iterable is exhausted
ResolveEnd ==
    /\ pc = "resolve"
    /\ i >= Len(literal_eval(missing_subtitles).items)
    /\ pc' = "show"
    /\ UNCHANGED <<no, movieFound, pathExists, missing_subtitles, exc,
                   count_movie, languages, langSrc, i, g, result, events>>
    /\ UNCHANGED <<run, prevEvents, prevExc, ffVars, lifeVars>>

\* lines 71-75
ShowProgress ==
    /\ pc = "show"
    /\ events' = Append(events, Ev("show_progress", no, -1, count_movie, "0"))
    /\ pc' = "generate"
    /\ UNCHANGED <<no, movieFound, pathExists, missing_subtitles, exc,
                   count_movie, languages, langSrc, i, g, result>>
    /\ UNCHANGED <<run, prevEvents, prevExc, ffVars, lifeVars>>

\* GenerateStep without the truth test of line 86
GenerateStep_NoTruthTest(outcome) ==
    /\ pc = "generate"
    /\ g < Len(languages)
    /\ g' = g + 1
    /\ events' = Append(events, Ev("generate", 0, langSrc[g + 1], 0, outcome))
    /\ IF outcome # "skip"
       THEN /\ result' = [kind |-> "obj", idx |-> langSrc[g + 1]]
            /\ pc' = "store"
       ELSE /\ result' = NoResult
            /\ pc' = pc
    /\ UNCHANGED <<no, movieFound, pathExists, missing_subtitles, exc,
                   count_movie, languages, langSrc, i>>
    /\ UNCHANGED <<run, prevEvents, prevExc, ffVars, lifeVars>>

\* lines 77-88: generate_subtitles works on the next language it was given
\* and the loop takes what it yields; a truthy tuple is unwrapped
GenerateStep(outcome) ==
    /\ pc = "generate"
    /\ g < Len(languages)
    /\ SameOutcome(langSrc[g + 1], outcome)
    /\ g' = g + 1
    /\ events' = Append(events, Ev("generate", 0, langSrc[g + 1], 0, outcome))
    /\ IF ResultTruthy(outcome)
       THEN /\ result' = [kind |-> "obj", idx |-> langSrc[g + 1]]
            /\ pc' = "store"
       ELSE /\ result' = NoResult
            /\ pc' = pc
    /\ UNCHANGED <<no, movieFound, pathExists, missing_subtitles, exc,
                   count_movie, languages, langSrc, i>>
    /\ UNCHANGED <<run, prevEvents, prevExc, ffVars, lifeVars>>

\* line 77: the generator is exhausted
GenerateEnd ==
    /\ pc = "generate"
    /\ g >= Len(languages)
    /\ pc' = "hide"
    /\ UNCHANGED <<no, movieFound, pathExists, missing_subtitles, exc,
                   count_movie, languages, langSrc, i, g, result, events>>
    /\ UNCHANGED <<run, prevEvents, prevExc, ffVars, lifeVars>>

\* line 89
StoreSubtitles ==
    /\ pc = "store"
    /\ events' = Append(events, Ev("store_subtitles_movie", 0, result.idx, 0, ""))
    /\ pc' = "history"
    /\ UNCHANGED <<no, movieFound, pathExists, missing_subtitles, exc,
                   count_movie, languages, langSrc, i, g, result>>
    /\ UNCHANGED <<run, prevEvents, prevExc, ffVars, lifeVars>>

\* line 90
HistoryLog ==
    /\ pc = "history"
    /\ events' = Append(events, Ev("history_log_movie", no, result.idx, 1, ""))
    /\ pc' = "notify"
    /\ UNCHANGED <<no, movieFound, pathExists, missing_subtitles, exc,
                   count_movie, languages, langSrc, i, g, result>>
    /\ UNCHANGED <<run, prevEvents, prevExc, ffVars, lifeVars>>

\* line 91
SendNotifications ==
    /\ pc = "notify"
    /\ events' = Append(events, Ev("send_notifications_movie", no, result.idx, 0, ""))
    /\ pc' = "generate"
    /\ UNCHANGED <<no, movieFound, pathExists, missing_subtitles, exc,
                   count_movie, languages, langSrc, i, g, result>>
    /\ UNCHANGED <<run, prevEvents, prevExc, ffVars, lifeVars>>

\* line 93
HideProgress ==
    /\ pc = "hide"
    /\ events' = Append(events, Ev("hide_progress", no, -1, 0, ""))
    /\ pc' = "done"
    /\ UNCHANGED <<no, movieFound, pathExists, missing_subtitles, exc,
                   count_movie, languages, langSrc, i, g, result>>
    /\ UNCHANGED <<run, prevEvents, prevExc, ffVars, lifeVars>>

\* Reinvoke with `languages` outliving the call
Reinvoke_KeepLanguages ==
    /\ pc \in {"done", "raised"}
    /\ run = 1
    /\ run' = 2
    /\ prevEvents' = events
    /\ prevExc' = exc
    /\ events' = <<>>
    /\ pc' = "query"
    /\ exc' = "none"
    /\ count_movie' = 0
    /\ i' = 0
    /\ g' = 0
    /\ result' = NoResult
    /\ UNCHANGED <<no, movieFound, pathExists, missing_subtitles,
                   languages, langSrc>>
    /\ UNCHANGED <<ffVars, lifeVars>>

\* line 22 and lines 46-57: the function is called again for the same item
\* with the database and the file system as they were; its locals are new
Reinvoke ==
    /\ pc \in {"done", "raised"}
    /\ run = 1
    /\ run' = 2
    /\ prevEvents' = events
    /\ prevExc' = exc
    /\ events' = <<>>
    /\ pc' = "query"
    /\ exc' = "none"
    /\ count_movie' = 0
    /\ languages' = <<>>
    /\ langSrc' = <<>>
    /\ i' = 0
    /\ g' = 0
    /\ result' = NoResult
    /\ UNCHANGED <<no, movieFound, pathExists, missing_subtitles>>
    /\ UNCHANGED <<ffVars, lifeVars>>

\* lines 77-91 without any handler: an exception raised by the generator
\* or by a sink leaves the function
CollaboratorRaises ==
    /\ pc \in {"generate", "store", "history", "notify"}
    /\ pc = "generate" => g < Len(languages)
    /\ events' = Append(events, Ev("raise", 0, -1, 0, pc))
    /\ pc' = "raised"
    /\ exc' = "Exception"
    /\ UNCHANGED <<no, movieFound, pathExists, missing_subtitles,
                   count_movie, languages, langSrc, i, g, result>>
    /\ UNCHANGED <<run, prevEvents, prevExc, ffVars, lifeVars>>

\* ------------------------------------------------- FileFlowsProvider
\* line 154: the first check interval, seconds
BASE_INTERVAL == 10
\* line 173: the largest check interval, seconds
MAX_INTERVAL == 60

\* seconds to the unit of clock; every interval of the sequence
\* 10, 15, 22.5, 33.75, 50.625, 60 is a whole number of sixteenths
Ticks(seconds) == 16 * seconds

Min(a, b) == IF a <= b THEN a ELSE b

\* NextInterval without the cap
NextInterval_NoCap(interval) == (interval * 3) \div 2

\* line 173: min(check_interval * 1.5, 60)
NextInterval(interval) == Min((interval * 3) \div 2, Ticks(MAX_INTERVAL))

\* configured timeouts (seconds)
Timeouts == {13, 100, 200}

\* the seconds one status request takes: timeout=self.timeout (lines
\* 136-138) limits the connect and each read, not the request as a whole,
\* so a request may last longer than any configured timeout
CheckSeconds == {0, 2, 80}

\* max_wait_time of a direct call of wait_for_completion, seconds
WaitTimes == {-5, 0, 13}

\* what submit_file_to_workflow meets: the file is missing, the request
\* raises RequestException, the answer is not 200, the 200 answer has no
\* uid, the 200 answer carries a uid, or the body of the 200 answer is
\* JSON but no object (a list, a string, a number, null)
SubmitOutcomes == {"nofile", "transport", "rejected", "nouid", "ok", "notobject"}

\* what check_job_status returns: nothing ("error": RequestException or a
\* non-200 answer), the empty object ("{}"), or status data whose "status"
\* is one of these ("" for a missing key), or a 200 answer whose body is
\* JSON but no object ("notobject")
StatusAnswers ==
    {"error", "{}", "Pending", "Processing", "Completed", "Failed",
     "Cancelled", "Queued", "", "notobject"}

\* lines 121-125 and 141-142: a JSON value that is no object has no get()
\* and the call raises AttributeError, which `except RequestException`
\* does not catch
NoGet(body) == body = "notobject"

FFIdle ==
    /\ ffpc = "idle"
    /\ timeout = 0
    /\ clock = 0
    /\ start_time = 0
    /\ check_interval = 0
    /\ job_id = ""
    /\ content = "unset"
    /\ success = "none"
    /\ nChecks = 0
    /\ nSleeps = 0
    /\ lastStatus = ""
    /\ allProcessing = TRUE
    /\ entryPoint = "none"
    /\ max_wait_time = 0
    /\ lastSleep = 0
    /\ nSubmits = 0
    /\ submitOutcome = "none"
    /\ ffexc = "none"

\* an initialized provider, no call in progress
FFInit ==
    /\ ffpc = "ready"
    /\ timeout \in Timeouts
    /\ clock = 0
    /\ start_time = 0
    /\ check_interval = 0
    /\ job_id = ""
    /\ content = "unset"
    /\ success = "none"
    /\ nChecks = 0
    /\ nSleeps = 0
    /\ lastStatus = ""
    /\ allProcessing = TRUE
    /\ entryPoint = "none"
    /\ max_wait_time = 0
    /\ lastSleep = 0
    /\ nSubmits = 0
    /\ submitOutcome = "none"
    /\ ffexc = "none"

\* lines 105-131: the exception submit_file_to_workflow raises, or the job
\* id it returns, "" for None
submit_file_to_workflow(outcome) ==
    IF NoGet(outcome) THEN [exc |-> "AttributeError", id |-> ""]
    ELSE IF outcome = "ok" THEN [exc |-> "none", id |-> "uid"]
    ELSE [exc |-> "none", id |-> ""]

\* lines 107-118: the request is posted unless the file is missing
Posts(outcome) == IF outcome = "nofile" THEN 0 ELSE 1

\* lines 192-203 and 153-154: submit; an exception of the submit leaves
\* the call; without a job id return, else record the id and enter
\* wait_for_completion(job_id, self.timeout)
FFSubmit(outcome) ==
    /\ ffpc = "ready"
    /\ entryPoint' = "download_subtitle"
    /\ submitOutcome' = outcome
    /\ nSubmits' = nSubmits + Posts(outcome)
    /\ LET submitted == submit_file_to_workflow(outcome)
           id == submitted.id
       IN  IF submitted.exc # "none"
           THEN /\ ffpc' = "raised"
                /\ ffexc' = submitted.exc
                /\ UNCHANGED <<job_id, start_time, check_interval,
                               max_wait_time>>
           ELSE IF id = ""
           THEN /\ ffpc' = "returned"
                /\ ffexc' = ffexc
                /\ UNCHANGED <<job_id, start_time, check_interval,
                               max_wait_time>>
           ELSE /\ ffpc' = "loop"
                /\ ffexc' = ffexc
                /\ job_id' = id
                /\ max_wait_time' = timeout
                /\ start_time' = clock
                /\ check_interval' = Ticks(BASE_INTERVAL)
    /\ UNCHANGED <<timeout, clock, content, success, nChecks, nSleeps,
                   lastStatus, allProcessing, lastSleep>>
    /\ UNCHANGED <<movieVars, lifeVars>>

\* lines 151-154: wait_for_completion called on its own with max_wait_time
FFWaitDirect(wait) ==
    /\ ffpc = "ready"
    /\ entryPoint' = "wait_for_completion"
    /\ max_wait_time' = wait
    /\ start_time' = clock
    /\ check_interval' = Ticks(BASE_INTERVAL)
    /\ ffpc' = "loop"
    /\ UNCHANGED <<timeout, clock, job_id, content, success, nChecks,
                   nSleeps, lastStatus, allProcessing, lastSleep, nSubmits,
                   submitOutcome>>
    /\ UNCHANGED <<ffexc, movieVars, lifeVars>>

\* line 156: the loop condition
WithinWait(now, start, wait) == now - start < Ticks(wait)

\* lines 156 and 175-176
FFLoopTest ==
    /\ ffpc = "loop"
    /\ IF WithinWait(clock, start_time, max_wait_time)
       THEN ffpc' = "check" /\ success' = success
       ELSE ffpc' = "finish" /\ success' = FALSE
    /\ UNCHANGED <<timeout, clock, start_time, check_interval, job_id,
                   content, nChecks, nSleeps, lastStatus, allProcessing,
                   entryPoint, max_wait_time, lastSleep, nSubmits, submitOutcome>>
    /\ UNCHANGED <<ffexc, movieVars, lifeVars>>

\* line 158: `not status_data` (None or an empty object)
NoStatusData(answer) == answer \in {"error", "{}"}

\* FFCheck that goes on polling when the job was cancelled
FFCheck_CancelledPolls(answer, seconds) ==
    /\ ffpc = "check"
    /\ clock' = clock + Ticks(seconds)
    /\ nChecks' = nChecks + 1
    /\ lastStatus' = answer
    /\ allProcessing' = (allProcessing /\ answer = "Processing")
    /\ ffexc' = IF NoGet(answer) THEN "AttributeError" ELSE ffexc
    /\ IF NoGet(answer)
       THEN ffpc' = "raised" /\ success' = success
       ELSE IF NoStatusData(answer)
       THEN ffpc' = "finish" /\ success' = FALSE
       ELSE IF answer = "Completed"
       THEN ffpc' = "finish" /\ success' = TRUE
       ELSE IF answer = "Failed"
       THEN ffpc' = "finish" /\ success' = FALSE
       ELSE ffpc' = "sleep" /\ success' = success
    /\ UNCHANGED <<timeout, start_time, check_interval, job_id, content,
                   nSleeps, entryPoint, max_wait_time, lastSleep, nSubmits,
                   submitOutcome>>
    /\ UNCHANGED <<movieVars, lifeVars>>

\* FFCheck that retries after a status check that returned nothing
FFCheck_ErrorRetries(answer, seconds) ==
    /\ ffpc = "check"
    /\ clock' = clock + Ticks(seconds)
    /\ nChecks' = nChecks + 1
    /\ lastStatus' = answer
    /\ allProcessing' = (allProcessing /\ answer = "Processing")
    /\ ffexc' = IF NoGet(answer) THEN "AttributeError" ELSE ffexc
    /\ IF NoGet(answer)
       THEN ffpc' = "raised" /\ success' = success
       ELSE IF answer = "Completed"
       THEN ffpc' = "finish" /\ success' = TRUE
       ELSE IF answer \in {"Failed", "Cancelled"}
       THEN ffpc' = "finish" /\ success' = FALSE
       ELSE ffpc' = "sleep" /\ success' = success
    /\ UNCHANGED <<timeout, start_time, check_interval, job_id, content,
                   nSleeps, entryPoint, max_wait_time, lastSleep, nSubmits,
                   submitOutcome>>
    /\ UNCHANGED <<movieVars, lifeVars>>

\* lines 157-168 and 133-149: one status check taking `seconds`, and the
\* branch on it; an exception of check_job_status leaves the call
FFCheck(answer, seconds) ==
    /\ ffpc = "check"
    /\ clock' = clock + Ticks(seconds)
    /\ nChecks' = nChecks + 1
    /\ lastStatus' = answer
    /\ allProcessing' = (allProcessing /\ answer = "Processing")
    /\ ffexc' = IF NoGet(answer) THEN "AttributeError" ELSE ffexc
    /\ IF NoGet(answer)
       THEN ffpc' = "raised" /\ success' = success
       ELSE IF NoStatusData(answer)
       THEN ffpc' = "finish" /\ success' = FALSE
       ELSE IF answer = "Completed"
       THEN ffpc' = "finish" /\ success' = TRUE
       ELSE IF answer \in {"Failed", "Cancelled"}
       THEN ffpc' = "finish" /\ success' = FALSE
       ELSE ffpc' = "sleep" /\ success' = success
    /\ UNCHANGED <<timeout, start_time, check_interval, job_id, content,
                   nSleeps, entryPoint, max_wait_time, lastSleep, nSubmits,
                   submitOutcome>>
    /\ UNCHANGED <<movieVars, lifeVars>>

\* lines 171-173
FFSleep ==
    /\ ffpc = "sleep"
    /\ clock' = clock + check_interval
    /\ lastSleep' = check_interval
    /\ check_interval' = NextInterval(check_interval)
    /\ nSleeps' = nSleeps + 1
    /\ ffpc' = "loop"
    /\ UNCHANGED <<timeout, start_time, job_id, content, success, nChecks,
                   lastStatus, allProcessing, entryPoint, max_wait_time,
                   nSubmits, submitOutcome>>
    /\ UNCHANGED <<ffexc, movieVars, lifeVars>>

\* lines 203-214 after download_subtitle's wait; a direct call of
\* wait_for_completion hands its value to the caller
FFFinish ==
    /\ ffpc = "finish"
    /\ content' = IF entryPoint = "download_subtitle" /\ success = TRUE
                  THEN "empty" ELSE content
    /\ ffpc' = "returned"
    /\ UNCHANGED <<timeout, clock, start_time, check_interval, job_id,
                   success, nChecks, nSleeps, lastStatus, allProcessing,
                   entryPoint, max_wait_time, lastSleep, nSubmits, submitOutcome>>
    /\ UNCHANGED <<ffexc, movieVars, lifeVars>>

\* the provider is used for the next subtitle after a call returned or
\* raised: a new subtitle object and new locals; clock restarts, being read
\* only relative to start_time, and check_interval keeps the value the
\* previous call left until line 154 sets it again
FFNewCall ==
    /\ ffpc \in {"returned", "raised"}
    /\ ffexc' = "none"
    /\ ffpc' = "ready"
    /\ clock' = 0
    /\ start_time' = 0
    /\ job_id' = ""
    /\ content' = "unset"
    /\ success' = "none"
    /\ nChecks' = 0
    /\ nSleeps' = 0
    /\ lastStatus' = ""
    /\ allProcessing' = TRUE
    /\ entryPoint' = "none"
    /\ max_wait_time' = 0
    /\ lastSleep' = 0
    /\ nSubmits' = 0
    /\ submitOutcome' = "none"
    /\ UNCHANGED <<timeout, check_interval>>
    /\ UNCHANGED <<movieVars, lifeVars>>

FFNext ==
    \/ \E outcome \in SubmitOutcomes : FFSubmit(outcome)
    \/ \E wait \in WaitTimes : FFWaitDirect(wait)
    \/ FFLoopTest
    \/ \E answer \in StatusAnswers, seconds \in CheckSeconds :
           FFCheck(answer, seconds)
    \/ FFSleep
    \/ FFFinish
    \/ FFNewCall

\* ------------------------------- FileFlowsProvider: construction, ping
\* calls of initialize, terminate and ping followed after construction
MaxOps == 3

\* Python values of the arguments: strings stand for themselves, "None"
\* for None; the timeout is None or a number
NoTimeout == [none |-> TRUE, v |-> 0]
Seconds(n) == [none |-> FALSE, v |-> n]

ApiUrls == {"None", "", "http://ff/"}
ApiKeys == {"None", "", "key"}
WorkflowIds == {"None", "", "wf"}
TimeoutArgs == {NoTimeout, Seconds(0), Seconds(30), Seconds(-5)}
LogLevels == {"None", "INFO", "debug", "verbose"}

\* `not x` for a str-or-None argument
Falsy(x) == x \in {"None", ""}

\* `not timeout`
FalsyTimeout(t) == t.none \/ t.v = 0

\* str.upper() on the log levels used
Upper(l) == IF l = "debug" THEN "DEBUG"
            ELSE IF l = "verbose" THEN "VERBOSE"
            ELSE l

\* the level names the logging module defines
LoggingLevels ==
    {"CRITICAL", "FATAL", "ERROR", "WARNING", "WARN", "INFO", "DEBUG", "NOTSET"}

\* lines 19-21: set_log_level raises AttributeError for None (no upper())
\* and for a name that logging does not define
set_log_level(newLevel) ==
    IF newLevel = "None" THEN "AttributeError"
    ELSE IF Upper(newLevel) \notin LoggingLevels THEN "AttributeError"
    ELSE "none"

\* str.rstrip("/") on the URLs used
RStripSlash(u) == IF u = "http://ff/" THEN "http://ff" ELSE u

\* lines 63-75: the exception __init__ raises, "none" when it goes through
InitError(a) ==
    IF set_log_level(a.loglevel) # "none" THEN set_log_level(a.loglevel)
    ELSE IF Falsy(a.api_url) THEN "ConfigurationError"
    ELSE IF Falsy(a.api_key) THEN "ConfigurationError"
    ELSE IF Falsy(a.workflow_id) THEN "ConfigurationError"
    ELSE IF FalsyTimeout(a.timeout) THEN "ConfigurationError"
    ELSE "none"

NoAttrs == [api_url |-> "unset", timeout |-> 0]

LifeIdle ==
    /\ lpc = "idle"
    /\ args = [api_url |-> "None", api_key |-> "None", workflow_id |-> "None",
               timeout |-> NoTimeout, loglevel |-> "None"]
    /\ attrs = NoAttrs
    /\ session = "unset"
    /\ lexc = "none"
    /\ pingResult = "none"
    /\ netCalls = 0
    /\ ops = 0

LifeInit ==
    /\ lpc = "new"
    /\ args \in [api_url : ApiUrls, api_key : ApiKeys, workflow_id : WorkflowIds,
                 timeout : TimeoutArgs, loglevel : LogLevels]
    /\ attrs = NoAttrs
    /\ session = "unset"
    /\ lexc = "none"
    /\ pingResult = "none"
    /\ netCalls = 0
    /\ ops = 0

\* lines 60-82
Construct ==
    /\ lpc = "new"
    /\ lexc' = InitError(args)
    /\ IF InitError(args) = "none"
       THEN /\ lpc' = "constructed"
            /\ attrs' = [api_url |-> RStripSlash(args.api_url),
                         timeout |-> args.timeout.v]
            /\ session' = "None"
       ELSE /\ lpc' = "failed"
            /\ UNCHANGED <<attrs, session>>
    /\ UNCHANGED <<args, pingResult, netCalls, ops>>
    /\ UNCHANGED <<movieVars, ffVars>>

\* lines 84-91
Initialize ==
    /\ lpc = "constructed"
    /\ ops < MaxOps
    /\ ops' = ops + 1
    /\ session' = "open"
    /\ lexc' = "none"
    /\ UNCHANGED <<lpc, args, attrs, pingResult, netCalls>>
    /\ UNCHANGED <<movieVars, ffVars>>

\* lines 93-95: a Session object is truthy, None is not
Terminate ==
    /\ lpc = "constructed"
    /\ ops < MaxOps
    /\ ops' = ops + 1
    /\ session' = IF session = "None" THEN session ELSE "closed"
    /\ lexc' = "none"
    /\ UNCHANGED <<lpc, args, attrs, pingResult, netCalls>>
    /\ UNCHANGED <<movieVars, ffVars>>

\* what the GET of /api/status meets
PingAnswers == {"200", "503", "RequestException"}

\* lines 97-103: self.session.get on None raises AttributeError, which the
\* handler of RequestException does not catch; a closed Session still sends
Ping(answer) ==
    /\ lpc = "constructed"
    /\ ops < MaxOps
    /\ ops' = ops + 1
    /\ IF session = "None"
       THEN /\ pingResult' = "raised"
            /\ lexc' = "AttributeError"
            /\ netCalls' = netCalls
       ELSE /\ pingResult' = IF answer = "200" THEN "True" ELSE "False"
            /\ lexc' = "none"
            /\ netCalls' = netCalls + 1
    /\ UNCHANGED <<lpc, args, attrs, session>>
    /\ UNCHANGED <<movieVars, ffVars>>

LifeNext ==
    \/ Construct
    \/ Initialize
    \/ Terminate
    \/ \E answer \in PingAnswers : Ping(answer)

MoviesNext ==
    \/ QueryMovie
    \/ CheckPath
    \/ CountMissing
    \/ \E providers_list \in BOOLEAN : ResolveLanguage(providers_list)
    \/ ResolveEnd
    \/ ShowProgress
    \/ \E outcome \in Outcomes : GenerateStep(outcome)
    \/ GenerateEnd
    \/ StoreSubtitles
    \/ HistoryLog
    \/ SendNotifications
    \/ HideProgress

\* no call of movies_download_subtitles in progress
MoviesIdle ==
    /\ no = 1
    /\ movieFound = FALSE
    /\ pathExists = FALSE
    /\ missing_subtitles = <<>>
    /\ pc = "idle"
    /\ exc = "none"
    /\ count_movie = 0
    /\ languages = <<>>
    /\ langSrc = <<>>
    /\ i = 0
    /\ g = 0
    /\ result = NoResult
    /\ events = <<>>
    /\ run = 1
    /\ prevEvents = <<>>
    /\ prevExc = "none"

InitFF == MoviesIdle /\ FFInit /\ LifeIdle

Init == MoviesInit /\ FFIdle /\ LifeIdle

InitLife == MoviesIdle /\ FFIdle /\ LifeInit

Next == MoviesNext

\* collaborators that return normally
Spec == Init /\ [][Next]_vars

NextFail == MoviesNext \/ CollaboratorRaises

\* collaborators that may raise
SpecFail == Init /\ [][NextFail]_vars

NextFF == FFNext

\* calls of FileFlowsProvider.download_subtitle and wait_for_completion
SpecFF == InitFF /\ [][NextFF]_vars

\* the calling thread keeps running
SpecFFLive == SpecFF /\ WF_vars(NextFF)

NextTwice == MoviesNext \/ Reinvoke

\* two calls in succession for the same item, collaborators that return
\* normally and answer the second call as they answered the first
SpecTwice == Init /\ [][NextTwice]_vars

NextLife == LifeNext

\* construction of a FileFlowsProvider and calls of its initialize,
\* terminate and ping
SpecLife == InitLife /\ [][NextLife]_vars

\* ------------------------------------------------------------ the claims
SinkOps == {"store_subtitles_movie", "history_log_movie",
            "send_notifications_movie"}

\* positions of the calls of `op` in the log
At(op) == {p \in 1..Len(events) : events[p].op = op}
Calls(op) == Cardinality(At(op))

\* positions where generate_subtitles handed over a truthy / a falsy result
Successes == {p \in At("generate") : events[p].kind \in {"obj", "tuple"}}
Failures == {p \in At("generate") : events[p].kind = "None"}

\* positions where get_providers returned the empty set
EmptyQueries == {p \in At("get_providers") : events[p].kind = "empty"}

\* the run is over: it returned or an exception left it
Ended == pc \in {"done", "raised"}

\* the entries of the raw list, when the serialization is a list
RawItems == literal_eval(missing_subtitles).items

\* C1: when get_providers returns the empty set at raw index k, only
\* entries with index < k reach the sinks or the provider work of
\* generate_subtitles, no later query of the providers is made, and the run
\* goes on to return normally with the progress-end event emitted last.
C1_ThrottleKeepsPrefix ==
    \A p \in EmptyQueries :
        /\ \A q \in 1..Len(events) :
               events[q].op \in SinkOps \cup {"generate"} => events[q].idx < events[p].idx
        /\ \A q \in At("get_providers") : q <= p
        /\ pc # "raised" /\ exc = "none"
        /\ pc # "done" => ENABLED MoviesNext
        /\ pc = "done" => events[Len(events)].op = "hide_progress"

\* throttled at index 1 of 2 after the entry at index 0 went to the sinks
C1_Witness ==
    /\ pc = "done"
    /\ Len(RawItems) = 2
    /\ \E p \in EmptyQueries : events[p].idx = 1
    /\ \E q \in At("send_notifications_movie") : events[q].idx = 0

\* C2: the item exists but its path does not: the run fails with OSError
\* and no progress event, provider query or sink call is ever made.
C2_PathUnavailableFirst ==
    (movieFound /\ ~pathExists) =>
        /\ events = <<>>
        /\ pc \in {"query", "path", "raised"}
        /\ pc = "raised" => exc = "OSError"
        /\ pc # "raised" => ENABLED MoviesNext

C2_Witness == movieFound /\ ~pathExists /\ pc = "raised" /\ exc = "OSError"

\* C3: no item matches: the run returns normally and makes no path check,
\* provider query, progress event or sink call.
C3_NotFoundReturns ==
    ~movieFound =>
        /\ events = <<>>
        /\ pc \in {"query", "done"}
        /\ exc = "none"
        /\ pc # "done" => ENABLED MoviesNext

C3_Witness == ~movieFound /\ pc = "done" /\ missing_subtitles # <<>>

\* C4: store, history and notify are called only for a truthy result, once
\* each and in that order before the next result is taken; a falsy result
\* calls none of them and the later languages are still worked on.
\* #notify <= #history <= #store <= #successes always, all equal at the end.
C4_SinksOnlyOnSuccess ==
    /\ \A p \in At("store_subtitles_movie") :
           /\ p - 1 \in Successes
           /\ events[p].idx = events[p - 1].idx
    /\ \A p \in At("history_log_movie") :
           /\ events[p - 1].op = "store_subtitles_movie"
           /\ events[p].idx = events[p - 1].idx
    /\ \A p \in At("send_notifications_movie") :
           /\ events[p - 1].op = "history_log_movie"
           /\ events[p].idx = events[p - 1].idx
    /\ \A p \in Successes :
           /\ p + 1 <= Len(events) => events[p + 1].op = "store_subtitles_movie"
           /\ p + 2 <= Len(events) => events[p + 2].op = "history_log_movie"
           /\ p + 3 <= Len(events) => events[p + 3].op = "send_notifications_movie"
           /\ p + 4 <= Len(events) => events[p + 4].op \in {"generate", "hide_progress"}
    /\ \A p \in At("generate") \ Successes :
           p + 1 <= Len(events) => events[p + 1].op \in {"generate", "hide_progress"}
    /\ Calls("send_notifications_movie") <= Calls("history_log_movie")
    /\ Calls("history_log_movie") <= Calls("store_subtitles_movie")
    /\ Calls("store_subtitles_movie") <= Cardinality(Successes)
    /\ Ended =>
           /\ Calls("send_notifications_movie") = Cardinality(Successes)
           /\ Calls("history_log_movie") = Cardinality(Successes)
           /\ Calls("store_subtitles_movie") = Cardinality(Successes)
           /\ Calls("show_progress") = 1 => Calls("generate") = Len(languages)

\* a falsy result followed by a successful one that went through the sinks
C4_Witness ==
    /\ pc = "done"
    /\ \E p \in Failures, q \in Successes :
           /\ p < q
           /\ events[q].kind = "tuple"
           /\ events[q + 3].op = "send_notifications_movie"

\* C5: a run that emitted progress-start emits exactly one progress-end
\* with the same id on every exit path, a failing sink or generator
\* included, and every sink call lies between the two events.
C5_ProgressEndOnEveryExit ==
    /\ Calls("show_progress") <= 1
    /\ Calls("hide_progress") <= Calls("show_progress")
    /\ \A p \in At("show_progress") : events[p].id = no /\ events[p].kind = "0"
    /\ \A p \in At("hide_progress") :
           /\ events[p].id = no
           /\ \A q \in 1..Len(events) : events[q].op \in SinkOps => q < p
    /\ \A q \in 1..Len(events) :
           events[q].op \in SinkOps => \E p \in At("show_progress") : p < q
    /\ (Ended /\ Calls("show_progress") = 1) => Calls("hide_progress") = 1

\* number of entries of the raw list that are not null
NonNullEntries == Cardinality({k \in 1..Len(RawItems) : RawItems[k].t # "none"})

\* C6: the count of the progress-start event is the number of language
\* requests the raw list resolves to, null entries not counted, and
\* count_movie keeps that value to the end of the run.
C6_CountSkipsNulls ==
    \A p \in At("show_progress") :
        events[p].n = NonNullEntries /\ count_movie = events[p].n

\* C7: a raw state that decodes to no language request (the empty list, a
\* list of nulls) gives progress-start with count 0, no result, no sink
\* call and no call of get_providers.
C7_EmptyStateAsksNoProvider ==
    (/\ literal_eval(missing_subtitles).kind = "list"
     /\ NonNullEntries = 0
     /\ movieFound
     /\ pathExists) =>
        /\ Calls("get_providers") = 0
        /\ \A p \in At("show_progress") : events[p].n = 0
        /\ \A q \in 1..Len(events) : events[q].op \notin SinkOps \cup {"generate"}
        /\ pc # "raised"

\* base languages of the well-formed entries
Bases == {EN, ES}

\* C8: with providers available throughout, the requests are, in input
\* order, one per non-null entry; "xx:hi" gives (xx, hi, not forced),
\* "xx:forced" (xx, not hi, forced), "xx" (xx, not hi, not forced); no
\* request has both flags.
C8_WellFormedRequests ==
    /\ Len(langSrc) = Len(languages)
    /\ \A k \in 1..Len(languages) :
           /\ ~(languages[k][2] = "True" /\ languages[k][3] = "True")
           /\ RawItems[langSrc[k] + 1].t = "str"
           /\ k > 1 => langSrc[k - 1] < langSrc[k]
           /\ \A base \in Bases :
                  LET entry == RawItems[langSrc[k] + 1].v
                  IN  /\ entry = base \o HI_SUFFIX =>
                             languages[k] = <<base, "True", "False">>
                      /\ entry = base \o FORCED_SUFFIX =>
                             languages[k] = <<base, "False", "True">>
                      /\ entry = base =>
                             languages[k] = <<base, "False", "False">>
    /\ (EmptyQueries = {} /\ (pc = "show" \/ Calls("show_progress") = 1)) =>
           Len(languages) = NonNullEntries

\* ['en:hi', 'es:forced'] resolved in order
C8_Witness ==
    /\ pc = "done"
    /\ missing_subtitles =
           Serialize(<<StrTok(EN \o HI_SUFFIX), StrTok(ES \o FORCED_SUFFIX)>>)
    /\ languages = << <<EN, "True", "False">>, <<ES, "False", "True">> >>

\* serializations that are empty or malformed
Malformed == { <<>>, <<LB, StrTok(EN)>>, <<Tok("name", EN)>> }

\* C9: a malformed or empty serialization never makes the run raise: it
\* goes through progress-start with count 0 to progress-end, with no sink
\* call.
C9_MalformedIsEmpty ==
    (missing_subtitles \in Malformed /\ movieFound /\ pathExists) =>
        /\ pc # "raised"
        /\ \A p \in At("show_progress") : events[p].n = 0
        /\ \A q \in 1..Len(events) : events[q].op \notin SinkOps
        /\ pc = "done" => Calls("hide_progress") = 1

\* C10: a call whose status checks all read "Processing" ends in failure
\* no later than timeout + one poll interval after the job was submitted
\* (the interval taken as the largest one, 60 s).
C10_TimeoutBoundsTheWait ==
    (ffpc = "returned" /\ job_id # "" /\ allProcessing) =>
        /\ success = FALSE
        /\ content = "unset"
        /\ clock - start_time <= Ticks(timeout) + Ticks(MAX_INTERVAL)

\* the wait of the call was entered and has returned its value
WaitReturned ==
    /\ ffpc \in {"finish", "returned"}
    /\ entryPoint = "wait_for_completion" \/ submitOutcome = "ok"
Succeeded == WaitReturned /\ success = TRUE
FailedWait == WaitReturned /\ success = FALSE
TimedOut == FailedWait /\ clock - start_time >= Ticks(max_wait_time)

\* 10, 15, 22.5, 33.75 and 50.625 seconds in sixteenths, 60 s from then on
IntervalSequence == <<Ticks(10), Ticks(15), 360, 540, 810>>
ExpectedSleep(n) ==
    IF n <= Len(IntervalSequence) THEN IntervalSequence[n] ELSE Ticks(60)

\* C11: the sleeps of one call are 10, 15, 22.5, 33.75, 50.625, 60, 60, ...
\* seconds: never below 10, never above 60, never decreasing, and the next
\* call starts at 10 again.
C11_BackoffSequence ==
    /\ nSleeps >= 1 =>
           /\ lastSleep = ExpectedSleep(nSleeps)
           /\ Ticks(10) <= lastSleep /\ lastSleep <= Ticks(60)
    /\ nSleeps >= 2 => ExpectedSleep(nSleeps - 1) <= lastSleep
    /\ ffpc \in {"loop", "check", "sleep"} =>
           check_interval = ExpectedSleep(nSleeps + 1)

\* the cap is reached: the sixth and the seventh sleep last 60 s
C11_Witness == nSleeps = 7 /\ lastSleep = Ticks(60) /\ ffpc = "returned"

C12_States ==
    /\ Succeeded => (lastStatus = "Completed" /\ nChecks >= 1)
    /\ ffpc = "check" => clock - start_time < Ticks(max_wait_time)
    /\ ffpc = "sleep" =>
           lastStatus \notin {"Completed", "Failed", "Cancelled"}
    /\ (WaitReturned /\ nChecks >= 1) =>
           /\ lastStatus = "Completed" => success = TRUE
           /\ lastStatus \in {"Failed", "Cancelled"} => success = FALSE
           /\ lastStatus \in {"Pending", "Processing"} => TimedOut

C12_Steps ==
    /\ (nChecks' = nChecks + 1 /\ lastStatus' \in {"Pending", "Processing"}) =>
           ffpc' = "sleep"
    /\ ffpc = "sleep" => (ffpc' = "loop" /\ nChecks' = nChecks)
    /\ ffpc \in {"finish", "returned", "raised"} => nChecks' <= nChecks

\* C12: Completed ends the wait with success; Failed and Cancelled end it
\* with failure; Pending and Processing are followed by a sleep and the
\* next loop test; success is reported only after a check, issued before
\* the timeout, that read Completed; no check follows a terminal outcome.
C12_PollerStateMachine == []C12_States /\ [][C12_Steps]_vars

\* success on a later check, after at least one sleep
C12_Witness == Succeeded /\ nSleeps >= 1 /\ ffpc = "returned"

C13_States ==
    lastStatus = "error" => (ffpc \in {"finish", "returned"} /\ FailedWait)

C13_Steps ==
    (lastStatus = "error" /\ ffpc # "returned") =>
        (clock' = clock /\ nSleeps' = nSleeps /\ nChecks' = nChecks)

\* C13: a status check that returns nothing ends the wait at once with
\* failure: no sleep, no further check, no waiting for the timeout.
C13_CheckFailureEndsWait == []C13_States /\ [][C13_Steps]_vars

\* the second check fails while the timeout has not passed
C13_Witness ==
    /\ lastStatus = "error"
    /\ ffpc = "returned"
    /\ nChecks = 2
    /\ clock - start_time < Ticks(max_wait_time)

\* C19: download_subtitle never raises; it sets the content, to empty
\* bytes, exactly when the job was submitted and the wait ended in
\* Completed, and returns on every path; it posts at most one job, issues
\* no status check when the submit failed, and has the job id recorded
\* from the submit on.
C19_ContentOnlyOnCompleted ==
    /\ entryPoint = "download_subtitle" => (ffpc # "raised" /\ ffexc = "none")
    /\ content = "empty" <=>
           /\ ffpc = "returned"
           /\ entryPoint = "download_subtitle"
           /\ submitOutcome = "ok"
           /\ success = TRUE
           /\ lastStatus = "Completed"
    /\ nSubmits <= 1
    /\ submitOutcome \notin {"none", "ok"} =>
           /\ ffpc = "returned"
           /\ nChecks = 0
           /\ job_id = ""
    /\ submitOutcome = "ok" => (job_id = "uid" /\ nSubmits = 1)
    /\ ffpc # "returned" => ENABLED FFNext

C20_States ==
    /\ (nChecks >= 1 /\ lastStatus \in {"Queued", "", "Pending", "Processing"}) =>
           \/ ffpc \in {"sleep", "loop", "check"}
           \/ TimedOut
    /\ (max_wait_time <= 0 /\ entryPoint = "wait_for_completion") =>
           /\ nChecks = 0
           /\ ffpc \in {"loop", "finish", "returned"}
           /\ WaitReturned => success = FALSE

\* C20: the wait returns for every sequence of answers; an unknown or a
\* missing status keeps it polling like Pending and Processing, and such a
\* wait ends only by the timeout; with max_wait_time <= 0 it returns
\* failure without any status check.
C20_WaitTerminates ==
    /\ []C20_States
    /\ (ffpc \in {"loop", "check", "sleep", "finish"}) ~> (ffpc = "returned")

\* one of the four required arguments is None, empty or zero
AnyMissing ==
    \/ args.api_url \in {"None", ""}
    \/ args.api_key \in {"None", ""}
    \/ args.workflow_id \in {"None", ""}
    \/ args.timeout = NoTimeout
    \/ args.timeout = Seconds(0)

\* C14: construction with a required argument missing fails with
\* ConfigurationError, no session created and no request sent; a provider
\* exists, with session None and its timeout set, only when all four are
\* present.
C14_MissingConfigFailsFast ==
    /\ (lpc \notin {"new", "idle"} /\ AnyMissing) =>
           /\ lpc = "failed"
           /\ lexc = "ConfigurationError"
           /\ session = "unset"
           /\ netCalls = 0
    /\ lpc = "constructed" =>
           /\ ~AnyMissing
           /\ session # "unset"
           /\ attrs.timeout = args.timeout.v
           /\ ops = 0 => session = "None"

\* C15: in every lifecycle state ping returns a boolean and never raises;
\* terminate closes a session that was opened and does nothing otherwise.
C15_PingNeverRaises ==
    /\ pingResult \in {"none", "True", "False"}
    /\ lexc \in {"none", "ConfigurationError"} \/ lpc = "failed"
    /\ session = "closed" => ops >= 2

\* log `a` is the beginning of log `b`
IsPrefix(a, b) == Len(a) <= Len(b) /\ SubSeq(b, 1, Len(a)) = a

\* C16: a second call for the same item, with the state unchanged and the
\* providers answering as before, makes the same progress events and the
\* same store, history and notify calls with the same arguments, in the
\* same order, and ends as the first did.
C16_SecondCallRepeatsFirst ==
    run = 2 =>
        /\ IsPrefix(events, prevEvents)
        /\ Ended => (events = prevEvents /\ exc = prevExc)

\* the second call is over; both stored, logged and notified one subtitle
\* and got nothing for another entry
C16_Witness ==
    /\ run = 2
    /\ pc = "done"
    /\ Calls("send_notifications_movie") = 1
    /\ Failures # {}
    /\ Len(prevEvents) = Len(events)

\* the value of the last progress event that carries one
FinalValue ==
    LET shown == At("show_progress")
        last == CHOOSE p \in shown : \A q \in shown : q <= p
    IN  events[last].kind

\* C17: a run over n entries of which s are materialized makes s store,
\* s history and s notification calls, reports count = n in its progress
\* event, and the last progress value it reports is s.
C17_ProgressReflectsSuccesses ==
    (pc = "done" /\ At("show_progress") # {}
        /\ literal_eval(missing_subtitles).kind = "list") =>
        LET s == Cardinality(Successes)
            n == Len(RawItems)
        IN  /\ \A op \in SinkOps : Calls(op) = s
            /\ \A p \in At("show_progress") : events[p].n = n
            /\ FinalValue = ToString(s)

\* C18: the progress-start event precedes every query of the active
\* providers, and the providers are queried for an entry only after the
\* request made of an earlier entry has been materialized.
C18_QueryFollowsMaterialization ==
    \A q \in At("get_providers") :
        /\ \E p \in At("show_progress") : p < q
        /\ \A r \in At("get_providers") :
               (r < q /\ events[r].kind = "active"
                      /\ RawItems[events[r].idx + 1].t # "none") =>
                   \E m \in At("generate") :
                       m < q /\ events[m].idx = events[r].idx
====
